---------------------------- MODULE Spec2Model ----------------------------
(***************************************************************************)
(* Recipe store of the creative cooking assistant (database.py).           *)
(*                                                                         *)
(* The three tables recipes / ingredients / recipe_ingredient_association  *)
(* are the committed contents of the database.  Every Database object owns *)
(* one SQLAlchemy session; a session is modelled by its position inside    *)
(* add_from_recipe_parts, the Recipe object it is building and the         *)
(* Ingredient rows it has flushed but not yet committed.                   *)
(*                                                                         *)
(* The yes/no understanding of the chatbot (nlu/messages/yes_no_message.py)*)
(* has a state of its own: the input it was given, the frame it parsed and *)
(* the confidence it reported.                                             *)
(*                                                                         *)
(* The web chat server (web_server.py) keeps one Chatbot per conversation  *)
(* in a dictionary keyed by session id; its worker threads handle the      *)
(* requests, each thread one request at a time.                            *)
(***************************************************************************)
EXTENDS Integers, Sequences, FiniteSets, TLC

VARIABLES
    tables,         \* names of the tables that exist in the database
    recipes,        \* committed rows of table 'recipes'
    ingredients,    \* committed rows of table 'ingredients'
    associations,   \* committed rows of table 'recipe_ingredient_association'
    pc,             \* per session: position inside add_from_recipe_parts
    recipe_parts,   \* per session: argument of the running add_from_recipe_parts
    recipe,         \* per session: the Recipe object under construction
    line,           \* per session: index of the ingredient line being processed
    flushed,        \* per session: Ingredient rows INSERTed in the open transaction
    writer,         \* session holding the database write lock, or NoSession
    call,           \* per session: the last call made (operation, url / criteria)
    raised,         \* per session: exception raised by the last call, or NoException
    returned,       \* per session: list returned by the last get_recipes call
    distance_sets,  \* what utils.min_synset_distance_in_sentence gives for the
                    \* input string: one result for the yes and one for the
                    \* no keywords
    frame,          \* frame of the YesNoMessage made of the input string
    confidence_of,  \* what YesNoMessage.confidence returned for the input string
    done,           \* which of 'confidence' and 'parse' have run on the input
    state_datastore,\* WebChatServer.state_datastore: session id -> Chatbot object
    chatbots,       \* the Chatbot objects created so far, each with the inputs
                    \* handle_input was given
    request,        \* per worker thread: the request it is handling (method,
                    \* local variables, position in __call__)
    issued          \* session ids sent to a browser in the page of a GET

vars == <<tables, recipes, ingredients, associations, pc, recipe_parts, recipe,
          line, flushed, writer, call, raised, returned,
          distance_sets, frame, confidence_of, done,
          state_datastore, chatbots, request, issued>>

\* the state of the database and of the Database objects
database == <<tables, recipes, ingredients, associations, pc, recipe_parts,
              recipe, line, flushed, writer, call, raised, returned>>

\* the state of the message understanding
message == <<distance_sets, frame, confidence_of, done>>

\* the state of the web chat server
server == <<state_datastore, chatbots, request, issued>>

store == <<recipes, ingredients, associations>>

-----------------------------------------------------------------------------
(* Bounds of the model *)

\* longest list of ingredient lines drawn freely from BasicLines
MaxLines == 2

\* numeric attributes and range bounds are drawn from 0 .. MaxTime
MaxTime == 2

\* session ids uuid.uuid4() can give before the model runs out of them
MaxSessionIds == 2

\* chat messages the server accepts before the model stops sending them
MaxInputs == 2

-----------------------------------------------------------------------------
(* Values *)

\* Python None / SQL NULL, where an integer is expected
None == -1

\* Python None / SQL NULL, where a string is expected
NoneStr == "None"

\* the empty string '', in a String column
EmptyString == ""

\* the empty string '', in an Integer column: sqlite keeps a text that is no
\* number as text, whatever the declared type of the column
Empty == -2

\* Python None, where a tuple is expected
NoneSet == <<>>

\* no value yet
NotComputed == "not computed"

NoSession == "no session"
NoException == "no exception"
DuplicateRecipeException == "DuplicateRecipeException"
IntegrityError == "IntegrityError"
ValueError == "ValueError"
ArgumentError == "ArgumentError"
OperationalError == "OperationalError"
InvalidRequestError == "InvalidRequestError"

\* worker threads of the WSGI server that calls the WebChatServer object
Threads == {"t1", "t2"}

\* the values uuid.uuid4() gives
SessionIds == 1 .. MaxSessionIds

\* a form field that is absent from the POST body
NoField == 0

\* chat messages; parse_qs leaves a blank field out of its result
Messages == {"hello", "yes"}
NoMessage == ""

NoChatbot == 0
KeyError == "KeyError"

\* a worker thread that is not inside __call__
NoRequest ==
    [method |-> "", pc |-> "idle", session_id |-> NoField,
     chat_message |-> NoMessage, chatbot |-> NoChatbot, raised |-> NoException]

Sessions == {"s1", "s2"}

URLs == {"http://example.com/pbj.html", "http://example.com/satay.html"}

Times == 0 .. MaxTime

\* the tables of Base.metadata
Tables == {"recipe_categories", "recipe_ingredient_association", "recipes",
           "ingredients", "categories"}

NumericAttributes == {"prep_time", "cook_time", "total_time", "num_steps"}

-----------------------------------------------------------------------------
(* Small helpers *)

Max(S) == CHOOSE x \in S : \A y \in S : y <= x

Min(S) == CHOOSE x \in S : \A y \in S : x <= y

Range(seq) == {seq[k] : k \in 1 .. Len(seq)}

SeqsUpTo(S, n) == UNION {[1 .. k -> S] : k \in 0 .. n}

RECURSIVE SortAscending(_)
SortAscending(S) ==
    IF S = {} THEN <<>> ELSE <<Min(S)>> \o SortAscending(S \ {Min(S)})

\* keep the first occurrence of every element, in order
RECURSIVE unique_list(_)
unique_list(seq) ==
    IF seq = <<>> THEN <<>>
    ELSE LET front == unique_list(SubSeq(seq, 1, Len(seq) - 1))
             x == seq[Len(seq)]
         IN  IF x \in Range(front) THEN front ELSE Append(front, x)

\* the rowid sqlite gives to the next row of a table: largest rowid + 1
NextId(rows) == IF rows = {} THEN 1 ELSE Max({r.id : r \in rows}) + 1

-----------------------------------------------------------------------------
(* The ingredient parser, nlu.extract_ingredient_parts (imported at         *)
(* database.py:89).  It maps an ingredient line to a dictionary of parts,   *)
(* or to nothing when the line cannot be parsed.  The dictionary may lack   *)
(* keys; database.py:157 reads a lacking key as None.                       *)

PeanutButter == "1 cup peanut butter"
Jelly == "1 tablespoon jelly"
Bread == "2 slices sliced bread"
Chicken == "1 pound chicken"
CrunchyPeanutButter == "2 tablespoons crunchy peanut butter"
Unparsable == "a pinch of love"

Lines == {PeanutButter, Jelly, Bread, Chicken, CrunchyPeanutButter, Unparsable}

\* the dictionary without any key: bool() of it is False
NoParts == [k \in {} |-> NoneStr]

extract_ingredient_parts(ingredient_string) ==
    CASE ingredient_string = PeanutButter ->
            [base_ingredient |-> "peanut butter", unit |-> "cup", quantity |-> "1"]
      [] ingredient_string = Jelly ->
            [base_ingredient |-> "jelly", unit |-> "tablespoon", quantity |-> "1"]
      [] ingredient_string = Bread ->
            [base_ingredient |-> "bread", unit |-> "slices", quantity |-> "2",
             modifiers |-> "sliced"]
      [] ingredient_string = Chicken ->
            [base_ingredient |-> "chicken", unit |-> "pound", quantity |-> "1"]
      [] ingredient_string = CrunchyPeanutButter ->
            [base_ingredient |-> "peanut butter", unit |-> "tablespoons",
             quantity |-> "2", modifiers |-> "crunchy"]
      [] OTHER -> NoParts

\* defaultdict(lambda: None, ingredient_parts)[key]
ingredient_part(ingredient_parts, key) ==
    IF key \in DOMAIN ingredient_parts THEN ingredient_parts[key] ELSE NoneStr

\* an association that refers to the row after its Ingredient
RecipeIngredientAssociationDangling(ingredient, ingredient_parts) ==
    [ingredient_id |-> ingredient.id + 1,
     unit |-> IF "unit" \in DOMAIN ingredient_parts
              THEN ingredient_parts.unit ELSE NoneStr,
     quantity |-> IF "quantity" \in DOMAIN ingredient_parts
                  THEN ingredient_parts.quantity ELSE NoneStr,
     modifiers |-> IF "modifiers" \in DOMAIN ingredient_parts
                   THEN ingredient_parts.modifiers ELSE NoneStr]

\* the RecipeIngredientAssociation object a parsable line gives, once its
\* Ingredient row is known
RecipeIngredientAssociation(ingredient, ingredient_parts) ==
    [ingredient_id |-> ingredient.id,
     unit |-> ingredient_part(ingredient_parts, "unit"),
     quantity |-> ingredient_part(ingredient_parts, "quantity"),
     modifiers |-> ingredient_part(ingredient_parts, "modifiers")]

-----------------------------------------------------------------------------
(* Recipe dictionaries handed to add_from_recipe_parts *)

\* the doctest recipe of database.py and the second recipe of the
\* inclusion/exclusion example
PBJLines == <<PeanutButter, Jelly, Bread>>
SatayLines == <<PeanutButter, Chicken>>
MixedLines == <<CrunchyPeanutButter, Unparsable, PeanutButter>>

BasicLines == {PeanutButter, Unparsable}

IngredientLists ==
    SeqsUpTo(BasicLines, MaxLines) \cup {PBJLines, SatayLines, MixedLines}

\* the keys add_from_recipe_parts reads (lines 141-151)
TextKeys == {"title", "url", "author", "description", "servings"}
NumberKeys == {"num_steps", "prep_time", "cook_time", "total_time"}
ListKeys == {"ingredients", "steps"}
Keys == TextKeys \cup NumberKeys \cup ListKeys

\* a default that turns a lacking key into None
recipe_part_none(parts, key) ==
    IF key \in DOMAIN parts THEN parts[key]
    ELSE IF key \in NumberKeys THEN None
    ELSE IF key \in ListKeys THEN <<>>
    ELSE NoneStr

\* defaultdict(str, recipe_parts)[key] (line 140): a lacking key reads as ''.
\* For 'ingredients' and 'steps' the '' is joined and iterated (lines 150-153),
\* which treat it as the list without elements.
recipe_part(parts, key) ==
    IF key \in DOMAIN parts THEN parts[key]
    ELSE IF key \in NumberKeys THEN Empty
    ELSE IF key \in ListKeys THEN <<>>
    ELSE EmptyString

RecipeParts(urls, lists, times) ==
    [url : urls, ingredients : lists,
     prep_time : times, cook_time : times, total_time : times, num_steps : times]

\* recipes that differ in their ingredient lines
IngestParts == RecipeParts(URLs, IngredientLists, {1})

NoRecipeParts == [url |-> "", ingredients |-> <<>>,
                  prep_time |-> None, cook_time |-> None,
                  total_time |-> None, num_steps |-> None]

\* Recipe(): every attribute is None, the list of associations is empty
NoRecipe == [title |-> NoneStr, url |-> "", author |-> NoneStr,
             description |-> NoneStr, servings |-> NoneStr,
             prep_time |-> None, cook_time |-> None,
             total_time |-> None, num_steps |-> None,
             ingredients_text |-> <<>>, steps_text |-> <<>>,
             ingredients |-> <<>>]

NoCall == [op |-> "none"]

-----------------------------------------------------------------------------
(* Initial state: Database.__init__ has connected and created the empty    *)
(* tables; no call has been made.                                          *)

InitDatabase ==
    /\ tables = Tables
    /\ recipes = {}
    /\ ingredients = {}
    /\ associations = {}
    /\ pc = [s \in Sessions |-> "idle"]
    /\ recipe_parts = [s \in Sessions |-> NoRecipeParts]
    /\ recipe = [s \in Sessions |-> NoRecipe]
    /\ line = [s \in Sessions |-> 0]
    /\ flushed = [s \in Sessions |-> {}]
    /\ writer = NoSession
    /\ call = [s \in Sessions |-> NoCall]
    /\ raised = [s \in Sessions |-> NoException]
    /\ returned = [s \in Sessions |-> <<>>]

\* no input string has arrived
InitMessage ==
    /\ distance_sets = [yes |-> NoneSet, no |-> NoneSet]
    /\ frame = [decision |-> <<>>]
    /\ confidence_of = NotComputed
    /\ done = {}

\* WebChatServer.__init__ (lines 33-35): the dictionary is empty; no Chatbot
\* exists, no request has arrived
InitServer ==
    /\ state_datastore = <<>>
    /\ chatbots = <<>>
    /\ request = [t \in Threads |-> NoRequest]
    /\ issued = {}

Init == InitDatabase /\ InitMessage /\ InitServer

-----------------------------------------------------------------------------
(* add_from_recipe_parts *)

\* a duplicate check that finds nothing
duplicate_never(url) == {}

\* self._session.query(Recipe).filter_by(url=...).first(): the committed rows
\* (the session has written no Recipe row of its own when it asks)
duplicate(url) == {r \in recipes : r.url = url}

\* rows of 'ingredients' a session sees: the committed ones and those it has
\* flushed in its open transaction
VisibleIngredients(s) == ingredients \cup flushed[s]

\* an ingredient lookup that finds nothing
IngredientNamedNever(s, name) == {}

\* self._session.query(Ingredient).filter_by(name=...).first()
IngredientNamed(s, name) == {i \in VisibleIngredients(s) : i.name = name}

\* a url column without the unique constraint
UrlTakenNever(url) == FALSE

\* recipes.url is UNIQUE (line 266): an INSERT of a url a committed row has
\* fails
UrlTaken(url) == \E r \in recipes : r.url = url

\* ingredients.name is UNIQUE (line 296): an INSERT of a name a visible row
\* has fails
NameTaken(s, name) == \E i \in VisibleIngredients(s) : i.name = name

\* the statement raises; the session rolls its transaction back, which drops
\* the rows it flushed and frees the write lock, and stays unusable because
\* the code never calls rollback() on it
Fail(s, exception) ==
    /\ raised' = [raised EXCEPT ![s] = exception]
    /\ pc' = [pc EXCEPT ![s] = "inactive"]
    /\ flushed' = [flushed EXCEPT ![s] = {}]
    /\ writer' = IF writer = s THEN NoSession ELSE writer
    /\ recipe' = [recipe EXCEPT ![s] = NoRecipe]
    /\ recipe_parts' = [recipe_parts EXCEPT ![s] = NoRecipeParts]
    /\ line' = [line EXCEPT ![s] = 0]
    /\ UNCHANGED <<server, message, tables, recipes, ingredients, associations, call, returned>>

\* the call add_from_recipe_parts(parts), by the url and the lines of parts
AddCall(parts) ==
    [op |-> "add_from_recipe_parts", url |-> parts.url,
     ingredients |-> recipe_part(parts, "ingredients")]

\* a duplicate check that runs after the ingredients were stored
AddDuplicateLate(s, parts) ==
    /\ pc[s] = "idle"
    /\ \E r \in recipes : r.url = parts.url
    /\ call' = [call EXCEPT ![s] = AddCall(parts)]
    /\ raised' = [raised EXCEPT ![s] = DuplicateRecipeException]
    /\ returned' = [returned EXCEPT ![s] = <<>>]
    /\ pc' = [pc EXCEPT ![s] = "returned"]
    /\ LET lines == recipe_part(parts, "ingredients")
           names == {extract_ingredient_parts(lines[k]).base_ingredient :
                        k \in {j \in 1 .. Len(lines) :
                                  DOMAIN extract_ingredient_parts(lines[j]) # {}}}
           new == {n \in names : \A i \in ingredients : i.name # n}
       IN  ingredients' =
              IF new = {} THEN ingredients
              ELSE ingredients \cup {[id |-> NextId(ingredients),
                                      name |-> CHOOSE n \in new : TRUE]}
    /\ UNCHANGED <<server, message, tables, recipes, associations, recipe_parts, recipe, line,
                   flushed, writer>>

\* lines 134-138: the url is taken, the call raises before it builds anything
AddDuplicate(s, parts) ==
    /\ pc[s] = "idle"
    /\ duplicate(parts.url) # {}
    /\ call' = [call EXCEPT ![s] = AddCall(parts)]
    /\ raised' = [raised EXCEPT ![s] = DuplicateRecipeException]
    /\ returned' = [returned EXCEPT ![s] = <<>>]
    /\ pc' = [pc EXCEPT ![s] = "returned"]
    /\ UNCHANGED <<server, message, tables, recipes, ingredients, associations, recipe_parts, recipe,
                   line, flushed, writer>>

\* lines 134-151: the url is free, the Recipe object is filled in from the
\* defaultdict made of the argument
AddBegin(s, parts) ==
    /\ pc[s] = "idle"
    /\ duplicate(parts.url) = {}
    /\ call' = [call EXCEPT ![s] = AddCall(parts)]
    /\ raised' = [raised EXCEPT ![s] = NoException]
    /\ returned' = [returned EXCEPT ![s] = <<>>]
    /\ recipe_parts' = [recipe_parts EXCEPT ![s] = parts]
    /\ recipe' = [recipe EXCEPT ![s] =
                    [title |-> recipe_part(parts, "title"),
                     url |-> recipe_part(parts, "url"),
                     author |-> recipe_part(parts, "author"),
                     description |-> recipe_part(parts, "description"),
                     num_steps |-> recipe_part(parts, "num_steps"),
                     servings |-> recipe_part(parts, "servings"),
                     prep_time |-> recipe_part(parts, "prep_time"),
                     cook_time |-> recipe_part(parts, "cook_time"),
                     total_time |-> recipe_part(parts, "total_time"),
                     ingredients_text |-> recipe_part(parts, "ingredients"),
                     steps_text |-> recipe_part(parts, "steps"),
                     ingredients |-> <<>>]]
    /\ line' = [line EXCEPT ![s] = 1]
    /\ pc' = [pc EXCEPT ![s] = "line"]
    /\ UNCHANGED <<server, message, tables, recipes, ingredients, associations, flushed, writer>>

\* recipe_parts['ingredients'] of the running call (line 153)
IngredientLines(s) == recipe_part(recipe_parts[s], "ingredients")

InLoop(s) == pc[s] = "line" /\ line[s] <= Len(IngredientLines(s))

CurrentParts(s) == extract_ingredient_parts(IngredientLines(s)[line[s]])

\* a loop without the test of line 155: the line without parts breaks the call
AddSkipCrash(s) ==
    /\ pc[s] = "line" /\ line[s] <= Len(recipe_parts[s].ingredients)
    /\ DOMAIN extract_ingredient_parts(recipe_parts[s].ingredients[line[s]]) = {}
    /\ raised' = [raised EXCEPT ![s] = "TypeError"]
    /\ pc' = [pc EXCEPT ![s] = "inactive"]
    /\ UNCHANGED <<server, message, tables, recipes, ingredients, associations, recipe_parts, recipe, line,
                   flushed, writer, call, returned>>

\* lines 154-156: the parser gives nothing for the line; continue
AddSkip(s) ==
    /\ InLoop(s)
    /\ DOMAIN CurrentParts(s) = {}
    /\ line' = [line EXCEPT ![s] = line[s] + 1]
    /\ UNCHANGED <<server, message, tables, recipes, ingredients, associations, pc, recipe_parts, recipe,
                   flushed, writer, call, raised, returned>>

\* lines 157-169, the Ingredient exists: the association refers to it
AddReuse(s) ==
    /\ InLoop(s)
    /\ DOMAIN CurrentParts(s) # {}
    /\ IngredientNamed(s, CurrentParts(s).base_ingredient) # {}
    /\ LET ingredient == CHOOSE i \in IngredientNamed(s, CurrentParts(s).base_ingredient) : TRUE
           assoc == RecipeIngredientAssociation(ingredient, CurrentParts(s))
       IN  recipe' = [recipe EXCEPT ![s].ingredients = Append(@, assoc)]
    /\ line' = [line EXCEPT ![s] = line[s] + 1]
    /\ UNCHANGED <<server, message, tables, recipes, ingredients, associations, pc, recipe_parts,
                   flushed, writer, call, raised, returned>>

\* lines 158-161: the lookup finds no Ingredient of that name
AddLookupMiss(s) ==
    /\ InLoop(s)
    /\ DOMAIN CurrentParts(s) # {}
    /\ IngredientNamed(s, CurrentParts(s).base_ingredient) = {}
    /\ pc' = [pc EXCEPT ![s] = "flush"]
    /\ UNCHANGED <<server, message, tables, recipes, ingredients, associations, recipe_parts, recipe, line,
                   flushed, writer, call, raised, returned>>

\* lines 161-169: the new Ingredient is INSERTed (flush) inside the session's
\* transaction, which takes the write lock; ingredients.name is unique
\* (line 296), so the INSERT fails if another session committed the name
\* since the lookup
AddFlush(s) ==
    /\ pc[s] = "flush"
    /\ writer \in {NoSession, s}
    /\ LET parts == CurrentParts(s)
           ingredient == [id |-> NextId(VisibleIngredients(s)),
                          name |-> parts.base_ingredient]
           assoc == RecipeIngredientAssociation(ingredient, parts)
       IN  IF NameTaken(s, parts.base_ingredient)
           THEN Fail(s, IntegrityError)
           ELSE /\ flushed' = [flushed EXCEPT ![s] = @ \cup {ingredient}]
                /\ writer' = s
                /\ recipe' = [recipe EXCEPT ![s].ingredients = Append(@, assoc)]
                /\ line' = [line EXCEPT ![s] = line[s] + 1]
                /\ pc' = [pc EXCEPT ![s] = "line"]
                /\ UNCHANGED <<server, message, tables, recipes, ingredients, associations, recipe_parts,
                               call, raised, returned>>

\* rows written in the reverse of the list order
AssociationRowsReversed(s, recipe_id) ==
    LET first == NextId(associations)
        n == Len(recipe[s].ingredients)
    IN  {[id |-> first + n - k,
          recipe_id |-> recipe_id,
          ingredient_id |-> recipe[s].ingredients[k].ingredient_id,
          unit |-> recipe[s].ingredients[k].unit,
          quantity |-> recipe[s].ingredients[k].quantity,
          modifiers |-> recipe[s].ingredients[k].modifiers]
         : k \in 1 .. n}

\* the rows the commit writes for recipe.ingredients, in list order
AssociationRows(s, recipe_id) ==
    LET first == NextId(associations)
    IN  {[id |-> first + k - 1,
          recipe_id |-> recipe_id,
          ingredient_id |-> recipe[s].ingredients[k].ingredient_id,
          unit |-> recipe[s].ingredients[k].unit,
          quantity |-> recipe[s].ingredients[k].quantity,
          modifiers |-> recipe[s].ingredients[k].modifiers]
         : k \in 1 .. Len(recipe[s].ingredients)}

RecipeRow(s, recipe_id) ==
    [id |-> recipe_id,
     url |-> recipe[s].url,
     title |-> recipe[s].title,
     author |-> recipe[s].author,
     description |-> recipe[s].description,
     num_steps |-> recipe[s].num_steps,
     ingredients_text |-> recipe[s].ingredients_text,
     steps_text |-> recipe[s].steps_text,
     servings |-> recipe[s].servings,
     prep_time |-> recipe[s].prep_time,
     cook_time |-> recipe[s].cook_time,
     total_time |-> recipe[s].total_time]

\* a commit that writes its Recipe over the stored Recipe of the same url
AddCommitReplacing(s) ==
    /\ pc[s] = "line"
    /\ line[s] > Len(IngredientLines(s))
    /\ writer \in {NoSession, s}
    /\ LET recipe_id == NextId(recipes)
       IN  /\ recipes' = {r \in recipes : r.url # recipe[s].url}
                            \cup {RecipeRow(s, recipe_id)}
           /\ associations' = associations \cup AssociationRows(s, recipe_id)
           /\ ingredients' = ingredients \cup flushed[s]
           /\ flushed' = [flushed EXCEPT ![s] = {}]
           /\ writer' = NoSession
           /\ pc' = [pc EXCEPT ![s] = "idle"]
           /\ recipe' = [recipe EXCEPT ![s] = NoRecipe]
           /\ recipe_parts' = [recipe_parts EXCEPT ![s] = NoRecipeParts]
           /\ line' = [line EXCEPT ![s] = 0]
           /\ UNCHANGED <<server, message, tables, call, raised, returned>>

\* lines 170-171: the Recipe and its associations are INSERTed and the
\* transaction commits; recipes.url is unique (line 266), so the INSERT fails
\* if another session committed the url since the duplicate check, and
\* recipes.title is NOT NULL (line 267), so it fails for a title of None
AddCommit(s) ==
    /\ pc[s] = "line"
    /\ line[s] > Len(IngredientLines(s))
    /\ writer \in {NoSession, s}
    /\ IF UrlTaken(recipe[s].url) \/ recipe[s].title = NoneStr
       THEN Fail(s, IntegrityError)
       ELSE LET recipe_id == NextId(recipes)
            IN  /\ recipes' = recipes \cup {RecipeRow(s, recipe_id)}
                /\ associations' = associations \cup AssociationRows(s, recipe_id)
                /\ ingredients' = ingredients \cup flushed[s]
                /\ flushed' = [flushed EXCEPT ![s] = {}]
                /\ writer' = NoSession
                /\ pc' = [pc EXCEPT ![s] = "idle"]
                /\ recipe' = [recipe EXCEPT ![s] = NoRecipe]
                /\ recipe_parts' = [recipe_parts EXCEPT ![s] = NoRecipeParts]
                /\ line' = [line EXCEPT ![s] = 0]
                /\ UNCHANGED <<server, message, tables, call, raised, returned>>

-----------------------------------------------------------------------------
(* create_database_schema *)

\* a create_all that does not look what exists: CREATE TABLE for every table
create_all_unchecked(existing) == Tables

\* Base.metadata.create_all(engine) (line 122), checkfirst=True by default:
\* the tables it issues CREATE TABLE for are those that do not exist
create_all(existing) == Tables \ existing

\* lines 118-122, called between two calls of the Database object, also of
\* one whose session a failed flush has left rolled back: the engine, not the
\* session, runs the statements.  CREATE TABLE of a table that exists fails.
create_database_schema(s) ==
    /\ pc[s] \in {"idle", "inactive"}
    /\ call' = [call EXCEPT ![s] = [op |-> "create_database_schema"]]
    /\ returned' = [returned EXCEPT ![s] = <<>>]
    /\ pc' = [pc EXCEPT ![s] = IF pc[s] = "idle" THEN "returned" ELSE "inactive"]
    /\ IF create_all(tables) \cap tables # {}
       THEN /\ raised' = [raised EXCEPT ![s] = OperationalError]
            /\ tables' = tables
       ELSE /\ raised' = [raised EXCEPT ![s] = NoException]
            /\ tables' = tables \cup create_all(tables)
    /\ UNCHANGED <<server, message, recipes, ingredients, associations, recipe_parts,
                   recipe, line, flushed, writer>>

-----------------------------------------------------------------------------
(* The search-term normalizer, nlu.normalize_ingredient_name (imported at   *)
(* database.py:89): folds case and number, so that a search term meets the  *)
(* name the parser stored.                                                  *)

normalize_ingredient_name(term) ==
    CASE term = "Peanut Butter" -> "peanut butter"
      [] term = "chickens" -> "chicken"
      [] OTHER -> term

Terms == {"peanut butter", "Peanut Butter", "jelly", "chicken", "chickens"}

-----------------------------------------------------------------------------
(* Search criteria of get_recipes *)

\* a value without __iter__: a number, or None when the keyword is not given
Scalar(v) == [iter |-> FALSE, val |-> v, items |-> <<>>]

\* a tuple or list
Tuple(items) == [iter |-> TRUE, val |-> None, items |-> items]

NotGiven == Scalar(None)

NoCriteria ==
    [include_ingredients |-> <<>>, exclude_ingredients |-> <<>>,
     prep_time |-> NotGiven, cook_time |-> NotGiven,
     total_time |-> NotGiven, num_steps |-> NotGiven]

\* searches by ingredient: up to two included terms, up to one excluded term
IngredientCriteria ==
    {[NoCriteria EXCEPT !.include_ingredients = inc, !.exclude_ingredients = exc]
        : inc \in SeqsUpTo(Terms, 2), exc \in SeqsUpTo(Terms, 1)}

Bounds == Times \cup {None}

\* exact values, (min, max) pairs with either bound possibly None, and
\* sequences that are no pair
Constraints ==
    {Scalar(v) : v \in Times}
    \cup {Tuple(<<lo, hi>>) : lo \in Bounds, hi \in Bounds}
    \cup {Tuple(<<>>), Tuple(<<0>>), Tuple(<<0, MaxTime, MaxTime>>)}

\* searches by one numeric attribute
RangeCriteria ==
    {[NoCriteria EXCEPT ![attribute] = c]
        : attribute \in NumericAttributes, c \in Constraints}

-----------------------------------------------------------------------------
(* get_recipes *)

\* the truth value of a generator expression (lines 196-199): an object
\* without __nonzero__ and __len__ is true, whatever it would yield
GeneratorTruth(items) == TRUE

\* SQL comparisons of a column value x with a number y: a comparison with
\* NULL is not true, and sqlite orders every text after every number
SqlEq(x, y) == x # None /\ y # None /\ x = y
SqlLe(x, y) == x # None /\ y # None /\ x # Empty /\ x <= y
SqlGe(x, y) == x # None /\ y # None /\ (x = Empty \/ x >= y)
SqlBetween(x, lo, hi) == SqlGe(x, lo) /\ SqlLe(x, hi)

\* line 346: a sequence that is no pair makes _range_predicate raise
InvalidRange(val_range) == val_range.iter /\ Len(val_range.items) # 2

\* a range predicate whose open ranges leave the bound itself out
range_predicate_exclusive(x, val_range) ==
    IF ~val_range.iter
    THEN SqlEq(x, val_range.val)
    ELSE LET min_val == val_range.items[1]
             max_val == val_range.items[2]
         IN  IF min_val # None /\ max_val # None
             THEN SqlBetween(x, min_val, max_val)
             ELSE IF min_val # None
                  THEN x # None /\ x > min_val
                  ELSE max_val # None /\ x # None /\ x < max_val

\* _range_predicate, lines 343-356, evaluated on the attribute value x of a row
range_predicate(x, val_range) ==
    IF ~val_range.iter
    THEN SqlEq(x, val_range.val)
    ELSE LET min_val == val_range.items[1]
             max_val == val_range.items[2]
         IN  IF min_val # None /\ max_val # None
             THEN SqlBetween(x, min_val, max_val)
             ELSE IF min_val # None
                  THEN SqlGe(x, min_val)
                  ELSE SqlLe(x, max_val)

\* lines 213-221: a numeric keyword that is not None adds its filter
RangeFilters(r, criteria) ==
    /\ criteria.total_time # NotGiven
          => range_predicate(r.total_time, criteria.total_time)
    /\ criteria.cook_time # NotGiven
          => range_predicate(r.cook_time, criteria.cook_time)
    /\ criteria.prep_time # NotGiven
          => range_predicate(r.prep_time, criteria.prep_time)
    /\ criteria.num_steps # NotGiven
          => range_predicate(r.num_steps, criteria.num_steps)

\* lines 207-210: the filters on Ingredient.name, all on the same joined row
IngredientFilters(i, criteria) ==
    /\ \A k \in 1 .. Len(criteria.include_ingredients) :
          i.name = normalize_ingredient_name(criteria.include_ingredients[k])
    /\ \A k \in 1 .. Len(criteria.exclude_ingredients) :
          i.name # normalize_ingredient_name(criteria.exclude_ingredients[k])

RecipeOf(a) == CHOOSE r \in recipes : r.id = a.recipe_id

IngredientOf(a) == CHOOSE i \in ingredients : i.id = a.ingredient_id

\* lines 204-206: recipe_ingredient_association JOIN recipes JOIN ingredients;
\* one row per association whose recipe and ingredient exist
JoinedRows ==
    {a \in associations :
        /\ \E r \in recipes : r.id = a.recipe_id
        /\ \E i \in ingredients : i.id = a.ingredient_id}

\* the rows the query selects, as recipe ids in storage order
SelectedRows(criteria) ==
    IF GeneratorTruth(criteria.include_ingredients)
          \/ GeneratorTruth(criteria.exclude_ingredients)
    THEN LET rows == {a \in JoinedRows :
                         /\ IngredientFilters(IngredientOf(a), criteria)
                         /\ RangeFilters(RecipeOf(a), criteria)}
             ids == SortAscending({a.id : a \in rows})
         IN  [k \in 1 .. Len(ids) |->
                 (CHOOSE a \in rows : a.id = ids[k]).recipe_id]
    ELSE SortAscending({r.id : r \in {x \in recipes : RangeFilters(x, criteria)}})

\* line 346-349 reached from lines 213-221
RaisesValueError(criteria) ==
    \E attribute \in NumericAttributes :
        criteria[attribute] # NotGiven /\ InvalidRange(criteria[attribute])

\* line 356 with max_val = None: SQLAlchemy builds a comparison with None for
\* == and != only (IS NULL, IS NOT NULL); 'attribute <= None' raises
\* sqlalchemy.exc.ArgumentError while the query is built
NullComparison(val_range) ==
    /\ val_range.iter
    /\ Len(val_range.items) = 2
    /\ val_range.items[1] = None
    /\ val_range.items[2] = None

\* the exception the filters of lines 213-221 raise, in the order the code
\* builds them, or NoException
FilterException(criteria) ==
    LET order == <<"total_time", "cook_time", "prep_time", "num_steps">>
        bad == {k \in 1 .. 4 :
                   /\ criteria[order[k]] # NotGiven
                   /\ \/ InvalidRange(criteria[order[k]])
                      \/ NullComparison(criteria[order[k]])}
    IN  IF bad = {} THEN NoException
        ELSE IF InvalidRange(criteria[order[Min(bad)]]) THEN ValueError
        ELSE ArgumentError

\* query.all() on a query for one entity gives every Recipe object once
get_recipes(criteria) == unique_list(SelectedRows(criteria))

\* a get_recipes that deletes the association rows of the Recipes it returns
FindDetaching(s, criteria) ==
    /\ pc[s] = "idle"
    /\ call' = [call EXCEPT ![s] = [op |-> "get_recipes", criteria |-> criteria]]
    /\ IF FilterException(criteria) # NoException
       THEN /\ raised' = [raised EXCEPT ![s] = FilterException(criteria)]
            /\ returned' = [returned EXCEPT ![s] = <<>>]
            /\ associations' = associations
       ELSE /\ raised' = [raised EXCEPT ![s] = NoException]
            /\ returned' = [returned EXCEPT ![s] = get_recipes(criteria)]
            /\ associations' = {a \in associations :
                                  a.recipe_id \notin Range(get_recipes(criteria))}
    /\ pc' = [pc EXCEPT ![s] = "returned"]
    /\ UNCHANGED <<server, message, tables, recipes, ingredients, recipe_parts, recipe,
                   line, flushed, writer>>

\* lines 173-222: the filters are built (lines 194-221), then query.all()
\* reads the rows; nothing is added to the session and nothing is written
Find(s, criteria) ==
    /\ pc[s] = "idle"
    /\ call' = [call EXCEPT ![s] = [op |-> "get_recipes", criteria |-> criteria]]
    /\ IF FilterException(criteria) # NoException
       THEN /\ raised' = [raised EXCEPT ![s] = FilterException(criteria)]
            /\ returned' = [returned EXCEPT ![s] = <<>>]
       ELSE /\ raised' = [raised EXCEPT ![s] = NoException]
            /\ returned' = [returned EXCEPT ![s] = get_recipes(criteria)]
    /\ pc' = [pc EXCEPT ![s] = "returned"]
    /\ UNCHANGED <<server, message, tables, recipes, ingredients, associations, recipe_parts, recipe,
                   line, flushed, writer>>

\* the caller is done with the list get_recipes returned or with the exception
\* the call raised; the session is free for the next call
Return(s) ==
    /\ pc[s] = "returned"
    /\ pc' = [pc EXCEPT ![s] = "idle"]
    /\ call' = [call EXCEPT ![s] = NoCall]
    /\ raised' = [raised EXCEPT ![s] = NoException]
    /\ returned' = [returned EXCEPT ![s] = <<>>]
    /\ UNCHANGED <<server, message, tables, recipes, ingredients, associations, recipe_parts, recipe,
                   line, flushed, writer>>

\* get_recipes on a session whose transaction a failed flush has rolled back:
\* the filters are built as usual, then query.all() (line 222) raises
\* sqlalchemy.exc.InvalidRequestError, as every statement of the session does
\* until rollback() is called, which the code never does
FindInactive(s, criteria) ==
    /\ pc[s] = "inactive"
    /\ call' = [call EXCEPT ![s] = [op |-> "get_recipes", criteria |-> criteria]]
    /\ raised' = [raised EXCEPT ![s] =
                    IF FilterException(criteria) # NoException
                    THEN FilterException(criteria) ELSE InvalidRequestError]
    /\ returned' = [returned EXCEPT ![s] = <<>>]
    /\ UNCHANGED <<server, message, tables, recipes, ingredients, associations, pc, recipe_parts, recipe,
                   line, flushed, writer>>

\* add_from_recipe_parts on such a session: the duplicate check (line 136)
\* is the first statement and raises
AddInactive(s, parts) ==
    /\ pc[s] = "inactive"
    /\ call' = [call EXCEPT ![s] = AddCall(parts)]
    /\ raised' = [raised EXCEPT ![s] = InvalidRequestError]
    /\ returned' = [returned EXCEPT ![s] = <<>>]
    /\ UNCHANGED <<server, message, tables, recipes, ingredients, associations, pc, recipe_parts, recipe,
                   line, flushed, writer>>

\* recipe.ingredients of a loaded Recipe (line 270): its association rows, in
\* storage order
RecipeIngredients(recipe_id) ==
    LET rows == {a \in associations : a.recipe_id = recipe_id}
        ids == SortAscending({a.id : a \in rows})
    IN  [k \in 1 .. Len(ids) |-> CHOOSE a \in rows : a.id = ids[k]]

-----------------------------------------------------------------------------
(* One Database object, ingesting recipes one call after the other and     *)
(* searching them by ingredient                                            *)

Ingest(s, inputs) ==
    \/ \E parts \in inputs : AddDuplicate(s, parts)
    \/ \E parts \in inputs : AddBegin(s, parts)
    \/ AddSkip(s)
    \/ AddReuse(s)
    \/ AddLookupMiss(s)
    \/ AddFlush(s)
    \/ AddCommit(s)

Search(s, inputs) ==
    \/ \E criteria \in inputs : Find(s, criteria)
    \/ Return(s)

Next ==
    \/ Ingest("s1", IngestParts)
    \/ Search("s1", IngredientCriteria)

Spec == Init /\ [][Next]_vars

-----------------------------------------------------------------------------
(* One Database object; the recipes differ in their numeric attributes and *)
(* the searches are by numeric attribute                                   *)

RangeParts ==
    RecipeParts({"http://example.com/pbj.html"},
                {<<>>, <<Unparsable, PeanutButter, CrunchyPeanutButter>>}, Times)

NextRange ==
    \/ Ingest("s1", RangeParts)
    \/ Search("s1", RangeCriteria)

SpecRange == Init /\ [][NextRange]_vars

-----------------------------------------------------------------------------
(* Two Database objects on the same database file, each with its own       *)
(* session; their calls interleave statement by statement                  *)

ConcurrentParts ==
    RecipeParts(URLs, SeqsUpTo({PeanutButter}, MaxLines) \cup {<<Unparsable, Jelly>>}, {1})

NextConcurrent ==
    \E s \in Sessions :
        \/ Ingest(s, ConcurrentParts)
        \/ Search(s, {NoCriteria})
        \/ \E parts \in ConcurrentParts : AddInactive(s, parts)
        \/ FindInactive(s, NoCriteria)
        \/ create_database_schema(s)

SpecConcurrent == Init /\ [][NextConcurrent]_vars

-----------------------------------------------------------------------------
(* One Database object; the searches combine an ingredient to include, an  *)
(* ingredient to exclude and constraints on two numeric attributes         *)

CombinedParts ==
    [url : URLs, ingredients : {<<Unparsable>>, SatayLines},
     prep_time : {1}, cook_time : {0, 1}, total_time : Times, num_steps : {1}]

TotalTimeConstraints ==
    {NotGiven, Tuple(<<None, None>>), Tuple(<<0>>)}
    \cup {Scalar(v) : v \in Times}
    \cup {Tuple(<<lo, None>>) : lo \in Times}

CookTimeConstraints ==
    {NotGiven, Scalar(1), Tuple(<<None, None>>), Tuple(<<0>>)}

CombinedCriteria ==
    {[NoCriteria EXCEPT !.include_ingredients = inc, !.exclude_ingredients = exc,
                        !.total_time = total, !.cook_time = cook]
        : inc \in SeqsUpTo({"chicken"}, 1), exc \in SeqsUpTo({"chicken"}, 1),
          total \in TotalTimeConstraints, cook \in CookTimeConstraints}

NextCombined ==
    \/ Ingest("s1", CombinedParts)
    \/ Search("s1", CombinedCriteria)

SpecCombined == Init /\ [][NextCombined]_vars

-----------------------------------------------------------------------------
(* One Database object; the recipe dictionaries lack some of the keys      *)

OptionalKeys == Keys \ {"url"}

\* the doctest recipe with every key
FullParts ==
    [title |-> "Peanut butter and jelly sandwich",
     author |-> "Anonymous",
     url |-> "http://example.com/pbj.html",
     description |-> "A sandwich",
     prep_time |-> MaxTime,
     cook_time |-> 0,
     total_time |-> MaxTime,
     servings |-> "1",
     num_steps |-> 1,
     ingredients |-> <<Unparsable, PeanutButter, CrunchyPeanutButter>>,
     steps |-> <<"Remove bread from package">>]

OptionalParts ==
    {[key \in {"url"} \cup given |-> FullParts[key]] : given \in SUBSET OptionalKeys}

OptionalCriteria ==
    {NoCriteria, [NoCriteria EXCEPT !.total_time = Tuple(<<0, None>>)]}

NextOptional ==
    \/ Ingest("s1", OptionalParts)
    \/ Search("s1", OptionalCriteria)

SpecOptional == Init /\ [][NextOptional]_vars

-----------------------------------------------------------------------------
(* YesNoMessage (nlu/messages/yes_no_message.py).  The tokenizer and the    *)
(* WordNet distance are library code; what reaches YesNoMessage is, for the *)
(* yes and for the no keywords, the result of                               *)
(* utils.min_synset_distance_in_sentence: None, or the nearest token with   *)
(* its index in the sentence and its distance, ((token, index), distance).  *)

minDistance == 3

\* distances are drawn from 0 .. MaxDistance, token indices from 0 .. MaxIndex
MaxDistance == 5
MaxIndex == 2

YesTokens == {"Ok", "good"}
NoTokens == {"No"}

DistanceSets(tokens) ==
    {NoneSet} \cup {<< <<token, index>>, distance >> :
                       token \in tokens, index \in 0 .. MaxIndex,
                       distance \in 0 .. MaxDistance}

\* 'distanceSet and distanceSet[1] <= minDistance' (lines 55, 60, 98, 102)
WithinMinDistance(distanceSet) ==
    distanceSet # NoneSet /\ distanceSet[2] <= minDistance

DecisionFrame(id, word, decision) ==
    [id |-> id, word |-> word, decision |-> decision]

\* a _parse that does not look for a conflict: a near yes keyword decides
parse_yes_first(yes, no) ==
    IF WithinMinDistance(yes)
    THEN DecisionFrame(yes[1][2], yes[1][1], "yes")
    ELSE IF WithinMinDistance(no)
         THEN DecisionFrame(no[1][2], no[1][1], "no")
         ELSE <<>>

\* _parse, lines 47-80: the value it gives frame['decision'], from the two
\* results of utils.min_synset_distance_in_sentence
parse(yes, no) ==
    LET yesDistanceSet == IF WithinMinDistance(yes) THEN yes ELSE NoneSet
        noDistanceSet == IF WithinMinDistance(no) THEN no ELSE NoneSet
    IN  IF yesDistanceSet # NoneSet /\ noDistanceSet = NoneSet
        THEN DecisionFrame(yesDistanceSet[1][2], yesDistanceSet[1][1], "yes")
        ELSE IF noDistanceSet # NoneSet /\ yesDistanceSet = NoneSet
             THEN DecisionFrame(noDistanceSet[1][2], noDistanceSet[1][1], "no")
             ELSE <<>>

\* confidence, lines 88-106
confidence(yes, no) ==
    IF WithinMinDistance(yes) THEN "1.0"
    ELSE IF WithinMinDistance(no) THEN "1.0"
    ELSE "0.0"

\* an input string arrives; yes and no are what the distance function finds
\* in it
Hear(yes, no) ==
    /\ distance_sets' = [yes |-> yes, no |-> no]
    /\ frame' = [decision |-> <<>>]
    /\ confidence_of' = NotComputed
    /\ done' = {}
    /\ UNCHANGED <<server, database>>

\* YesNoMessage.confidence(raw_input_string)
Confidence ==
    /\ "confidence" \notin done
    /\ confidence_of' = confidence(distance_sets.yes, distance_sets.no)
    /\ done' = done \cup {"confidence"}
    /\ UNCHANGED <<server, database, distance_sets, frame>>

\* YesNoMessage(raw_input_string): the constructor parses the string
Parse ==
    /\ "parse" \notin done
    /\ frame' = [frame EXCEPT !.decision = parse(distance_sets.yes, distance_sets.no)]
    /\ done' = done \cup {"parse"}
    /\ UNCHANGED <<server, database, distance_sets, confidence_of>>

NextYesNo ==
    \/ \E yes \in DistanceSets(YesTokens) : \E no \in DistanceSets(NoTokens) :
          Hear(yes, no)
    \/ Confidence
    \/ Parse

SpecYesNo == Init /\ [][NextYesNo]_vars

-----------------------------------------------------------------------------
(* WebChatServer (web_server.py).  A Chatbot object is known to the server  *)
(* by its identity and by the calls the server makes on it: the             *)
(* constructor, get_greeting and handle_input.  The objects live in         *)
(* 'chatbots' and are referred to by their position there.  The server runs *)
(* __call__ on several worker threads (line 97), so the statements of two   *)
(* requests interleave; a dictionary read or write is one step.             *)

\* Chatbot(self.db, self.logger, enable_debug=False), line 59: a new object
\* that has handled no input
Chatbot == [inputs |-> <<>>]

\* a dictionary write that forgets the other keys
save_chatbot_alone(datastore, chatbot, session_id) ==
    [k \in {session_id} |-> chatbot]

\* _save_chatbot, line 41: self.state_datastore[session_id] = chatbot
save_chatbot(datastore, chatbot, session_id) ==
    [k \in DOMAIN datastore \cup {session_id} |->
        IF k = session_id THEN chatbot ELSE datastore[k]]

\* _load_chatbot, line 47, for a key the dictionary has
load_chatbot(datastore, session_id) == datastore[session_id]

\* session ids drawn so far: those stored and those of the GET requests
\* being handled
Drawn ==
    DOMAIN state_datastore
    \cup {request[t].session_id : t \in {u \in Threads : request[u].method = "GET"}}

\* str(uuid.uuid4()), line 57: a version 4 UUID is 122 random bits; a value
\* drawn before is not drawn again
uuid4 == SessionIds \ Drawn

\* chat messages handed to a Chatbot or about to be
Accepted ==
    Cardinality({<<c, k>> \in (DOMAIN chatbots) \X (1 .. MaxInputs) :
                    k <= Len(chatbots[c].inputs)})
    + Cardinality({t \in Threads : request[t].pc = "loaded"})

\* GET, lines 55-60: a session id is drawn, a Chatbot is made and greets
Get(t) ==
    /\ request[t].pc = "idle"
    /\ \E session_id \in uuid4 :
          request' = [request EXCEPT ![t] =
                        [NoRequest EXCEPT !.method = "GET", !.pc = "greeted",
                                          !.session_id = session_id,
                                          !.chatbot = Len(chatbots) + 1]]
    /\ chatbots' = Append(chatbots, Chatbot)
    /\ UNCHANGED <<database, message, state_datastore, issued>>

\* GET, line 62
GetSave(t) ==
    /\ request[t].method = "GET"
    /\ request[t].pc = "greeted"
    /\ state_datastore' = save_chatbot(state_datastore, request[t].chatbot,
                                       request[t].session_id)
    /\ request' = [request EXCEPT ![t].pc = "saved"]
    /\ UNCHANGED <<database, message, chatbots, issued>>

\* GET, lines 64-69: the page that carries the session id is returned
GetRespond(t) ==
    /\ request[t].method = "GET"
    /\ request[t].pc = "saved"
    /\ issued' = issued \cup {request[t].session_id}
    /\ request' = [request EXCEPT ![t] = NoRequest]
    /\ UNCHANGED <<database, message, state_datastore, chatbots>>

\* POST, lines 72-77: the form is read and the Chatbot of its session id is
\* loaded; a form without session_id (line 74) or without chat_message
\* (line 75) and a session id that is no key of the dictionary (line 47)
\* raise KeyError
Post(t, session_id, chat_message) ==
    /\ request[t].pc = "idle"
    /\ IF \/ session_id = NoField
          \/ chat_message = NoMessage
          \/ session_id \notin DOMAIN state_datastore
       THEN request' = [request EXCEPT ![t] =
                          [NoRequest EXCEPT !.method = "POST", !.pc = "raised",
                                            !.session_id = session_id,
                                            !.chat_message = chat_message,
                                            !.raised = KeyError]]
       ELSE /\ Accepted < MaxInputs
            /\ request' = [request EXCEPT ![t] =
                             [NoRequest EXCEPT
                                !.method = "POST", !.pc = "loaded",
                                !.session_id = session_id,
                                !.chat_message = chat_message,
                                !.chatbot = load_chatbot(state_datastore, session_id)]]
    /\ UNCHANGED <<database, message, state_datastore, chatbots, issued>>

\* POST, line 79: chatbot.handle_input(chat_message)
PostHandle(t) ==
    /\ request[t].method = "POST"
    /\ request[t].pc = "loaded"
    /\ chatbots' = [chatbots EXCEPT ![request[t].chatbot].inputs =
                                      Append(@, request[t].chat_message)]
    /\ request' = [request EXCEPT ![t].pc = "handled"]
    /\ UNCHANGED <<database, message, state_datastore, issued>>

\* POST, line 81
PostSave(t) ==
    /\ request[t].method = "POST"
    /\ request[t].pc = "handled"
    /\ state_datastore' = save_chatbot(state_datastore, request[t].chatbot,
                                       request[t].session_id)
    /\ request' = [request EXCEPT ![t].pc = "saved"]
    /\ UNCHANGED <<database, message, chatbots, issued>>

\* a request of another method: neither branch of lines 56 and 70 is taken
OtherMethod(t) ==
    /\ request[t].pc = "idle"
    /\ request' = [request EXCEPT ![t] =
                     [NoRequest EXCEPT !.method = "HEAD", !.pc = "passed"]]
    /\ UNCHANGED <<database, message, state_datastore, chatbots, issued>>

\* POST, lines 83-84, and the end of a __call__ that raised or that handled
\* another method: the thread is free for the next request
Finish(t) ==
    /\ \/ request[t].method = "POST" /\ request[t].pc \in {"saved", "raised"}
       \/ request[t].pc = "passed"
    /\ request' = [request EXCEPT ![t] = NoRequest]
    /\ UNCHANGED <<database, message, state_datastore, chatbots, issued>>

NextServer ==
    \E t \in Threads :
        \/ Get(t)
        \/ GetSave(t)
        \/ GetRespond(t)
        \/ \E session_id \in SessionIds \cup {NoField} :
              \E chat_message \in Messages \cup {NoMessage} :
                 Post(t, session_id, chat_message)
        \/ PostHandle(t)
        \/ PostSave(t)
        \/ OtherMethod(t)
        \/ Finish(t)

SpecServer == Init /\ [][NextServer]_vars

-----------------------------------------------------------------------------
(* Properties *)

AddOp == "add_from_recipe_parts"

RecipesWithUrl(rows, url) == {r \in rows : r.url = url}

\* session s calls add_from_recipe_parts in this step
AddCalled(s) ==
    /\ pc[s] = "idle"
    /\ pc'[s] \in {"line", "returned"}
    /\ call'[s].op = AddOp

\* the previous call of session s was add_from_recipe_parts and it succeeded
AddSucceeded(s) ==
    /\ pc[s] = "idle"
    /\ call[s].op = AddOp
    /\ raised[s] = NoException

DedupStep(s) ==
    \* a call with a url no Recipe has is not rejected ...
    /\ (AddCalled(s) /\ RecipesWithUrl(recipes, call'[s].url) = {})
          => pc'[s] = "line"
    \* ... does not fail on the way ...
    /\ pc[s] \in {"line", "flush"} => pc'[s] \in {"line", "flush", "idle"}
    \* ... and ends with success and one Recipe of that url
    /\ (pc[s] = "line" /\ pc'[s] = "idle")
          => /\ raised'[s] = NoException
             /\ Cardinality(RecipesWithUrl(recipes', call[s].url)) = 1
    \* the next call with the same url raises and leaves that one Recipe
    /\ (AddSucceeded(s) /\ AddCalled(s)
           /\ call'[s].url = call[s].url)
          => /\ raised'[s] = DuplicateRecipeException
             /\ pc'[s] = "returned"
             /\ Cardinality(RecipesWithUrl(recipes', call[s].url)) = 1

\* C1: of two consecutive add_from_recipe_parts calls with a url that no Recipe
\* had, the first succeeds, the second raises DuplicateRecipeException, and
\* the store then holds exactly one Recipe with that url.
C1_AddTwice == [][DedupStep("s1")]_vars

\* the second call has raised, and the store holds the Recipe of the first
C1_Witness ==
    /\ pc["s1"] = "returned"
    /\ call["s1"].op = AddOp
    /\ raised["s1"] = DuplicateRecipeException
    /\ Cardinality(recipes) = 1
    /\ \A r \in recipes : r.url = call["s1"].url

\* C2: in every state reachable by interleaved add_from_recipe_parts and
\* get_recipes calls, no two Recipe rows have the same url.
C2_UrlUnique ==
    \A r1 \in recipes : \A r2 \in recipes : r1.url = r2.url => r1 = r2

\* both sessions passed the duplicate check for the same url; one committed
\* its Recipe, the commit of the other was refused
C2_Witness ==
    \E s \in Sessions : \E t \in Sessions \ {s} :
        /\ call[s].op = AddOp /\ call[t].op = AddOp
        /\ call[s].url = call[t].url
        /\ raised[s] = IntegrityError
        /\ raised[t] = NoException /\ pc[t] = "idle"
        /\ ingredients = {}
        /\ Cardinality(RecipesWithUrl(recipes, call[s].url)) = 1

\* C3: a call that raises DuplicateRecipeException leaves the Recipe,
\* Ingredient and Association rows as they were, also when the rejected
\* record has lines whose base ingredient is not stored yet.
C3_DuplicateLeavesStore ==
    [][\A s \in Sessions :
          (pc[s] = "idle" /\ pc'[s] = "returned"
              /\ raised'[s] = DuplicateRecipeException)
          => store' = store /\ flushed' = flushed]_vars

\* a record was rejected that has a parsable line whose base ingredient no
\* Ingredient row carries
C3_Witness ==
    /\ pc["s1"] = "returned"
    /\ raised["s1"] = DuplicateRecipeException
    /\ call["s1"].op = AddOp
    /\ \E k \in 1 .. Len(call["s1"].ingredients) :
          LET parts == extract_ingredient_parts(call["s1"].ingredients[k])
          IN  /\ DOMAIN parts # {}
              /\ \A i \in ingredients : i.name # parts.base_ingredient

\* the Ingredient rows session s can see that carry the name
Existing(s, name) == {i \in ingredients \cup flushed[s] : i.name = name}

ReuseStep(s) ==
    LET lines == recipe_parts[s].ingredients
        parts == extract_ingredient_parts(lines[line[s]])
    IN  (/\ pc[s] = "line" /\ line[s] <= Len(lines)
         /\ DOMAIN parts # {}
         /\ Existing(s, parts.base_ingredient) # {})
        => /\ ingredients' = ingredients
           /\ flushed' = flushed
           /\ Len(recipe'[s].ingredients) = Len(recipe[s].ingredients) + 1
           /\ \E i \in Existing(s, parts.base_ingredient) :
                 recipe'[s].ingredients[Len(recipe'[s].ingredients)].ingredient_id = i.id

NameUnique ==
    \A s \in Sessions :
        \A i1 \in ingredients \cup flushed[s] : \A i2 \in ingredients \cup flushed[s] :
            i1.name = i2.name => i1 = i2

\* C4: there is at most one Ingredient row per name; a line whose base
\* ingredient already names an Ingredient (of an earlier recipe or of an
\* earlier line of the same recipe) gets an Association that refers to that
\* row, and no Ingredient row is created.
C4_OneIngredientPerName == [](NameUnique) /\ [][ReuseStep("s1")]_vars

\* two recipes share the one 'peanut butter' row through two associations
C4_Witness ==
    /\ Cardinality({i \in ingredients : i.name = "peanut butter"}) = 1
    /\ \E a1 \in associations : \E a2 \in associations :
          /\ a1.recipe_id # a2.recipe_id
          /\ a1.ingredient_id = a2.ingredient_id
          /\ \E i \in ingredients : i.id = a1.ingredient_id /\ i.name = "peanut butter"

\* what the parser gives for the parsable lines, in the order of the lines
RECURSIVE ParsedLines(_)
ParsedLines(lines) ==
    IF lines = <<>> THEN <<>>
    ELSE LET parts == extract_ingredient_parts(Head(lines))
         IN  IF DOMAIN parts = {} THEN ParsedLines(Tail(lines))
             ELSE <<[name |-> parts.base_ingredient,
                     unit |-> ingredient_part(parts, "unit"),
                     quantity |-> ingredient_part(parts, "quantity"),
                     modifiers |-> ingredient_part(parts, "modifiers")]>>
                  \o ParsedLines(Tail(lines))

\* what the association rows of a Recipe read, in the order they are loaded
LoadedLines(recipe_id) ==
    LET rows == RecipeIngredients(recipe_id)
    IN  [k \in 1 .. Len(rows) |->
            [name |-> (CHOOSE i \in ingredients : i.id = rows[k].ingredient_id).name,
             unit |-> rows[k].unit,
             quantity |-> rows[k].quantity,
             modifiers |-> rows[k].modifiers]]

RecipeById(recipe_id) == CHOOSE r \in recipes : r.id = recipe_id

GotRecipes(s) ==
    pc[s] = "returned" /\ call[s].op = "get_recipes" /\ raised[s] = NoException

\* C5: the associations of a Recipe that get_recipes returns list the parsed
\* ingredient lines in the order of the input lines, the unparsable lines
\* left out, one association per parsable line.
C5_AssociationOrder ==
    \A s \in Sessions :
        GotRecipes(s) =>
            \A k \in 1 .. Len(returned[s]) :
                LoadedLines(returned[s][k])
                    = ParsedLines(RecipeById(returned[s][k]).ingredients_text)

\* get_recipes returned the doctest recipe of three distinct parsable lines
C5_Witness ==
    /\ GotRecipes("s1")
    /\ \E k \in 1 .. Len(returned["s1"]) :
          /\ RecipeById(returned["s1"][k]).ingredients_text = PBJLines
          /\ Len(RecipeIngredients(returned["s1"][k])) = 3

UnparsableCount(lines) ==
    Cardinality({k \in 1 .. Len(lines) : DOMAIN extract_ingredient_parts(lines[k]) = {}})

AssociationsOf(recipe_id) == {a \in associations : a.recipe_id = recipe_id}

SkipStep(s) ==
    LET lines == recipe_parts[s].ingredients
    IN  (/\ pc[s] = "line" /\ line[s] <= Len(lines)
         /\ DOMAIN extract_ingredient_parts(lines[line[s]]) = {})
        => /\ pc'[s] = "line"
           /\ line'[s] = line[s] + 1
           /\ raised'[s] = NoException
           /\ recipe'[s] = recipe[s]
           /\ flushed' = flushed
           /\ store' = store

\* C6: an unparsable line does not make add_from_recipe_parts fail and adds
\* neither an Association nor an Ingredient: a Recipe of n lines, k of them
\* unparsable, has exactly n - k Associations.
C6_UnparsableSkipped ==
    /\ [](\A r \in recipes :
            Cardinality(AssociationsOf(r.id))
                = Len(r.ingredients_text) - UnparsableCount(r.ingredients_text))
    /\ [](\A s \in Sessions : raised[s] \in {NoException, DuplicateRecipeException})
    /\ [][SkipStep("s1")]_vars

\* a Recipe of three lines, one unparsable, is stored with two Associations
C6_Witness ==
    \E r \in recipes :
        /\ Len(r.ingredients_text) = 3
        /\ UnparsableCount(r.ingredients_text) = 1
        /\ Cardinality(AssociationsOf(r.id)) = 2

IngredientNames(recipe_id) ==
    {(CHOOSE i \in ingredients : i.id = a.ingredient_id).name :
        a \in AssociationsOf(recipe_id)}

OnlyIngredientCriteria(criteria) ==
    \A attribute \in NumericAttributes : criteria[attribute] = NotGiven

\* C7: get_recipes with included terms S returns exactly the Recipes that have,
\* for every term of S, an Association whose Ingredient name is the normalized
\* term (stated for a non-empty S and no other criterion).
C7_IncludeEveryTerm ==
    \A s \in Sessions :
        LET criteria == call[s].criteria
            S == criteria.include_ingredients
        IN  (/\ GotRecipes(s)
             /\ OnlyIngredientCriteria(criteria)
             /\ criteria.exclude_ingredients = <<>>
             /\ S # <<>>)
            => Range(returned[s])
                 = {r.id : r \in {x \in recipes :
                      \A k \in 1 .. Len(S) :
                         normalize_ingredient_name(S[k]) \in IngredientNames(x.id)}}

\* C8: get_recipes with excluded terms X returns no Recipe that has an
\* Association whose Ingredient name is a normalized term of X; with the
\* recipes R1 = {peanut butter, jelly, bread} and R2 = {peanut butter, chicken}
\* stored, including 'peanut butter' and excluding 'chicken' returns R1 alone.
C8_ExcludeAnyTerm ==
    \A s \in Sessions :
        LET criteria == call[s].criteria
            X == criteria.exclude_ingredients
        IN  GotRecipes(s) =>
              /\ \A k \in 1 .. Len(returned[s]) : \A j \in 1 .. Len(X) :
                    normalize_ingredient_name(X[j]) \notin IngredientNames(returned[s][k])
              /\ (/\ {r.ingredients_text : r \in recipes} = {PBJLines, SatayLines}
                  /\ criteria.include_ingredients = <<"peanut butter">>
                  /\ X = <<"chicken">>)
                 => /\ Len(returned[s]) = 1
                    /\ RecipeById(returned[s][1]).ingredients_text = PBJLines

\* C9: get_recipes without criteria returns every stored Recipe exactly once,
\* the Recipes without Associations and those with several included.
C9_NoCriteriaAllRecipes ==
    \A s \in Sessions :
        (GotRecipes(s) /\ call[s].criteria = NoCriteria)
        => /\ Range(returned[s]) = {r.id : r \in recipes}
           /\ Len(returned[s]) = Cardinality(recipes)

\* the constraints C10 speaks of: an exact value, or a pair with a bound given
GivenRange(c) ==
    \/ ~c.iter /\ c.val # None
    \/ c.iter /\ Len(c.items) = 2 /\ (c.items[1] # None \/ c.items[2] # None)

\* what C10 says such a constraint matches
Matches(x, c) ==
    IF ~c.iter THEN x = c.val
    ELSE /\ c.items[1] # None => c.items[1] <= x
         /\ c.items[2] # None => x <= c.items[2]

OnlyOpenRange(criteria) ==
    \E attribute \in NumericAttributes :
        criteria = [NoCriteria EXCEPT ![attribute] = Tuple(<<None, None>>)]

\* C11: a (min, max) constraint with both bounds None restricts nothing:
\* get_recipes with only that constraint raises nothing and returns what
\* get_recipes without any constraint returns.
C11_OpenRangeUnrestricted ==
    \A s \in Sessions :
        (/\ pc[s] = "returned"
         /\ call[s].op = "get_recipes"
         /\ OnlyOpenRange(call[s].criteria))
        => /\ raised[s] = NoException
           /\ returned[s] = get_recipes(NoCriteria)

\* a tuple or list of 0, 1, 3 or more elements
WrongArity(c) == c.iter /\ Len(c.items) # 2

\* session s calls get_recipes in this step
FindCalled(s) ==
    /\ pc[s] = "idle"
    /\ pc'[s] = "returned"
    /\ call'[s].op = "get_recipes"

\* C12: get_recipes called with a sequence that is no pair as the constraint
\* on prep_time, cook_time, total_time or num_steps raises ValueError, returns
\* nothing and leaves the Recipe, Ingredient and Association rows unchanged.
C12_InvalidRange ==
    [][\A s \in Sessions :
          (/\ FindCalled(s)
           /\ \E attribute \in NumericAttributes :
                 WrongArity(call'[s].criteria[attribute]))
          => /\ raised'[s] = ValueError
             /\ returned'[s] = <<>>
             /\ store' = store]_vars

\* the calls of C12 in which no constraint is the pair (None, None)
C12_WithoutOpenRange ==
    [][\A s \in Sessions :
          (/\ FindCalled(s)
           /\ \E attribute \in NumericAttributes :
                 WrongArity(call'[s].criteria[attribute])
           /\ \A attribute \in NumericAttributes :
                 call'[s].criteria[attribute] # Tuple(<<None, None>>))
          => /\ raised'[s] = ValueError
             /\ returned'[s] = <<>>
             /\ store' = store]_vars

\* the constraints a search carries, each as a search of its own: the
\* included ingredients, the excluded ingredients, each numeric range
SingleConstraints(criteria) ==
    {[NoCriteria EXCEPT ![field] = criteria[field]] :
        field \in {f \in DOMAIN NoCriteria : criteria[f] # NoCriteria[f]}}

\* C13: the criteria of get_recipes are combined conjunctively: the Recipes a
\* search with several constraints returns are those that each of the
\* searches with one of its constraints alone returns.
C13_Conjunctive ==
    \A s \in Sessions :
        (/\ GotRecipes(s)
         /\ Cardinality(SingleConstraints(call[s].criteria)) >= 2)
        => Range(returned[s])
             = {r.id : r \in {x \in recipes :
                   \A single \in SingleConstraints(call[s].criteria) :
                      x.id \in Range(get_recipes(single))}}

\* the add_from_recipe_parts call of session s has ended without a Recipe
AddFailed(s) ==
    /\ call[s].op = AddOp
    /\ pc[s] \in {"returned", "inactive"}

\* C14: of two add_from_recipe_parts calls for the same url that both pass
\* the duplicate check before either inserts, one commits its Recipe and the
\* other raises DuplicateRecipeException, not the error of the storage
\* engine; the store then holds exactly one Recipe of that url.
C14_RaceReportsDuplicate ==
    \A s \in Sessions : \A t \in Sessions \ {s} :
        (/\ AddSucceeded(t)
         /\ AddFailed(s)
         /\ call[s].url = call[t].url)
        => /\ raised[s] = DuplicateRecipeException
           /\ Cardinality(RecipesWithUrl(recipes, call[s].url)) = 1

\* the commit of line 171 fails in this step
CommitFailed(s) ==
    /\ pc[s] = "line"
    /\ line[s] > Len(recipe_parts[s].ingredients)
    /\ pc'[s] = "inactive"

\* the failed commit leaves no row of the call: the tables are as before and
\* the Ingredient rows the call had flushed are gone
NoPartialRows(s) ==
    CommitFailed(s) => (store' = store /\ flushed'[s] = {})

\* a get_recipes call of a session whose add_from_recipe_parts has failed
\* with the error of the storage engine (the failed commit is such a failure)
\* returns, without error, what the store holds
LaterFind(s) ==
    (/\ pc[s] = "inactive"
     /\ call'[s] # call[s]
     /\ call'[s].op = "get_recipes")
    => /\ raised'[s] = NoException
       /\ returned'[s] = get_recipes(call'[s].criteria)

\* the first half of C15 alone
C15_NoPartialRows == [][\A s \in Sessions : NoPartialRows(s)]_vars

\* C15: when the commit of add_from_recipe_parts fails, no Recipe, no
\* Association and no Ingredient row of the call is in the store, and a later
\* get_recipes returns what it returned before the call.
C15_FailedCommitInvisible ==
    [][\A s \in Sessions : NoPartialRows(s) /\ LaterFind(s)]_vars

\* the column of table recipes that takes the value of a key
Column(key) ==
    CASE key = "ingredients" -> "ingredients_text"
      [] key = "steps" -> "steps_text"
      [] OTHER -> key

\* the empty value of the column, and its null
EmptyValue(key) ==
    IF key \in NumberKeys THEN Empty
    ELSE IF key \in ListKeys THEN <<>>
    ELSE EmptyString

NullValue(key) == IF key \in NumberKeys THEN None ELSE NoneStr

OptionalStep(s) ==
    \* a dictionary with a free url is accepted whatever keys it lacks ...
    /\ (AddCalled(s) /\ RecipesWithUrl(recipes, call'[s].url) = {})
          => pc'[s] = "line"
    \* ... the call does not fail on the way ...
    /\ pc[s] \in {"line", "flush"} => pc'[s] \in {"line", "flush", "idle"}
    \* ... and ends with one new Recipe, in which a key that was given has
    \* its value and a key that was lacking has the empty value, never null
    /\ (pc[s] = "line" /\ pc'[s] = "idle")
          => LET parts == recipe_parts[s]
                 new == recipes' \ recipes
             IN  /\ raised'[s] = NoException
                 /\ Cardinality(new) = 1
                 /\ \A r \in new :
                       /\ r.url = parts.url
                       /\ \A key \in Keys \ {"url"} :
                             IF key \in DOMAIN parts
                             THEN r[Column(key)] = parts[key]
                             ELSE /\ r[Column(key)] = EmptyValue(key)
                                  /\ key \notin ListKeys
                                        => r[Column(key)] # NullValue(key)
                       /\ "ingredients" \notin DOMAIN parts
                             => {a \in associations' : a.recipe_id = r.id} = {}

\* C16: add_from_recipe_parts on a dictionary with a url no Recipe has and
\* without any subset of the keys title, author, description, prep_time,
\* cook_time, total_time, servings, num_steps, ingredients, steps succeeds and
\* stores one new Recipe; a lacking key is stored as the empty value, never
\* as null, and without the key ingredients the Recipe has no Association.
C16_MissingFieldsDefault == [][OptionalStep("s1")]_vars

\* a Recipe was stored from a dictionary that has the url alone
C16_Witness ==
    /\ AddSucceeded("s1")
    /\ \E r \in recipes :
          /\ r.url = call["s1"].url
          /\ r.title = EmptyString /\ r.author = EmptyString
          /\ r.description = EmptyString /\ r.servings = EmptyString
          /\ r.prep_time = Empty /\ r.cook_time = Empty
          /\ r.total_time = Empty /\ r.num_steps = Empty
          /\ r.ingredients_text = <<>> /\ r.steps_text = <<>>
          /\ AssociationsOf(r.id) = {}

\* session s calls create_database_schema in this step
SchemaCalled(s) ==
    /\ call'[s] # call[s]
    /\ call'[s].op = "create_database_schema"

\* C17: create_database_schema, called any number of times and at any point
\* of a sequence of calls, raises no error and leaves the tables and every
\* Recipe, Ingredient and Association row as they were.
C17_SchemaIdempotent ==
    [][\A s \in Sessions :
          SchemaCalled(s)
          => /\ raised'[s] = NoException
             /\ tables' = tables
             /\ store' = store
             /\ flushed' = flushed]_vars

\* the schema was created again on a store that holds a Recipe with its
\* Association, while the other session is in the middle of a call
C17_Witness ==
    \E s \in Sessions : \E t \in Sessions \ {s} :
        /\ pc[s] = "returned"
        /\ call[s].op = "create_database_schema"
        /\ raised[s] = NoException
        /\ recipes # {} /\ associations # {} /\ ingredients # {}
        /\ pc[t] = "flush"

\* a keyword was found within the distance 3
Found(distanceSet) == distanceSet # <<>> /\ distanceSet[2] <= 3

\* C18: parsing sets the decision to a 'yes' frame exactly when a yes keyword
\* is within distance 3 and no no keyword is, to a 'no' frame exactly when a
\* no keyword is and no yes keyword is, and to the empty list in every other
\* case; when confidence returns 0.0 the parsed decision is the empty list.
C18_DecisionFrame ==
    LET yes == Found(distance_sets.yes)
        no == Found(distance_sets.no)
        decision == frame.decision
    IN  /\ "parse" \in done
              => /\ (decision # <<>> /\ decision.decision = "yes") <=> (yes /\ ~no)
                 /\ (decision # <<>> /\ decision.decision = "no") <=> (no /\ ~yes)
                 /\ decision = <<>> <=> ((~yes /\ ~no) \/ (yes /\ no))
        /\ ({"parse", "confidence"} \subseteq done /\ confidence_of = "0.0")
              => decision = <<>>

\* a yes and a no keyword are both near: the parsed decision is the empty
\* list although confidence returned 1.0
C18_Witness ==
    /\ done = {"parse", "confidence"}
    /\ Found(distance_sets.yes) /\ Found(distance_sets.no)
    /\ frame.decision = <<>>
    /\ confidence_of = "1.0"

\* every Association has its one Recipe and its one Ingredient
AssociationOwned ==
    \A a \in associations :
        /\ Cardinality({r \in recipes : r.id = a.recipe_id}) = 1
        /\ Cardinality({i \in ingredients : i.id = a.ingredient_id}) = 1

\* every Recipe has the Associations of its parsable lines
RecipeComplete ==
    \A r \in recipes :
        Cardinality(AssociationsOf(r.id)) = Len(ParsedLines(r.ingredients_text))

\* Associations appear only in the step that commits their Recipe, and none
\* disappears
CreatedWithRecipe ==
    associations' # associations
    => /\ associations \subseteq associations'
       /\ \E s \in Sessions :
             /\ pc[s] = "line" /\ pc'[s] = "idle"
             /\ raised'[s] = NoException
             /\ \E r \in recipes' \ recipes :
                   \A a \in associations' \ associations : a.recipe_id = r.id

\* C19: in every reachable state every Association belongs to exactly one
\* stored Recipe and refers to exactly one stored Ingredient; Associations
\* come into existence only with their Recipe, in a successful
\* add_from_recipe_parts, and no Recipe is stored without the Associations
\* of its parsable lines.
C19_AssociationOwnership ==
    /\ [](AssociationOwned)
    /\ [](RecipeComplete)
    /\ [][CreatedWithRecipe]_vars

\* two Recipes are stored with their Associations, and an ingestion of one
\* of the sessions has failed
C19_Witness ==
    /\ Cardinality(recipes) = 2
    /\ \A r \in recipes : AssociationsOf(r.id) # {}
    /\ \E s \in Sessions : pc[s] = "inactive"
    /\ \E s \in Sessions : AddSucceeded(s)

\* the rows of a table stay, with their values: no row goes, and no row of
\* the next state has the id of a row with other values
RowsKept(before, after) ==
    \A r \in before : {x \in after : x.id = r.id} = {r}

\* a successful add_from_recipe_parts ends in this step
AddEnds(s) == pc[s] = "line" /\ pc'[s] = "idle" /\ raised'[s] = NoException

GrowStep ==
    /\ RowsKept(recipes, recipes')
    /\ RowsKept(ingredients, ingredients')
    /\ \A s \in Sessions : AddEnds(s) => Cardinality(recipes' \ recipes) = 1
    /\ (\A s \in Sessions : ~AddEnds(s)) => recipes' = recipes

\* C20: the store only grows: a Recipe or Ingredient row of one state is, with
\* the same values, in every later state, and each successful
\* add_from_recipe_parts adds exactly one Recipe row.
C20_StoreGrows == [][GrowStep]_vars

\* two Recipes and two Ingredients are stored, and an ingestion has failed
\* on a unique constraint in between or since
C20_Witness ==
    /\ Cardinality(recipes) = 2
    /\ Cardinality(ingredients) = 2
    /\ \E s \in Sessions : pc[s] = "inactive" /\ raised[s] = IntegrityError

-----------------------------------------------------------------------------
(* C21 *)

\* session s calls get_recipes in this step, whatever state its session is in
GetRecipesCalled(s) ==
    /\ call'[s] # call[s]
    /\ call'[s].op = "get_recipes"

\* a constraint that makes the building of the filters raise: a sequence
\* that is no pair, or the pair (None, None)
Rejected(c) == WrongArity(c) \/ c = Tuple(<<None, None>>)

\* C21: get_recipes is read-only: whether it returns Recipes, returns an
\* empty list or raises, the Recipe, Ingredient and Association rows (and the
\* tables) are the same after the call as before; a call raises only because
\* of a constraint it was given, never because no Recipe matches: then it
\* returns the empty list.
C21_FindReadOnly ==
    [][\A s \in Sessions :
          /\ GetRecipesCalled(s) => (store' = store /\ tables' = tables)
          /\ FindCalled(s) =>
                /\ raised'[s] # NoException
                     <=> \E attribute \in NumericAttributes :
                            Rejected(call'[s].criteria[attribute])
                /\ raised'[s] # NoException => returned'[s] = <<>>
                /\ raised'[s] = NoException
                     => returned'[s] \in Seq({r.id : r \in recipes})]_vars

\* a search that matched none of the stored Recipes has returned the empty
\* list without an exception, and the rows are all there
C21_Witness ==
    /\ pc["s1"] = "returned"
    /\ call["s1"].op = "get_recipes"
    /\ raised["s1"] = NoException
    /\ returned["s1"] = <<>>
    /\ recipes # {}
    /\ associations # {}

\* a search that raised ValueError has left the rows there
C21_WitnessInvalidRange ==
    /\ pc["s1"] = "returned"
    /\ call["s1"].op = "get_recipes"
    /\ raised["s1"] = ValueError
    /\ recipes # {}
    /\ associations # {}

-----------------------------------------------------------------------------
(* C22 *)

\* every entry of the dictionary is there after the step, with the same
\* Chatbot, and every Chatbot has the inputs it had
EntriesKept ==
    /\ \A k \in DOMAIN state_datastore :
          /\ k \in DOMAIN state_datastore'
          /\ state_datastore'[k] = state_datastore[k]
    /\ \A c \in DOMAIN chatbots :
          /\ c \in DOMAIN chatbots'
          /\ Len(chatbots'[c].inputs) >= Len(chatbots[c].inputs)
          /\ SubSeq(chatbots'[c].inputs, 1, Len(chatbots[c].inputs))
               = chatbots[c].inputs

\* the GET of thread t stores its Chatbot in this step
GetStores(t) ==
    /\ request[t].method = "GET"
    /\ request[t].pc = "greeted"
    /\ request'[t].pc = "saved"

\* the GET of thread t stores one entry: the key is new, the Chatbot is one
\* no entry has and that has handled no input, and nothing else changes
OneNewEntry(t) ==
    LET session_id == request[t].session_id
    IN  /\ session_id \notin DOMAIN state_datastore
        /\ DOMAIN state_datastore' = DOMAIN state_datastore \cup {session_id}
        /\ \A k \in DOMAIN state_datastore :
              state_datastore'[k] = state_datastore[k]
        /\ \A k \in DOMAIN state_datastore :
              state_datastore[k] # state_datastore'[session_id]
        /\ chatbots'[state_datastore'[session_id]].inputs = <<>>
        /\ chatbots' = chatbots

\* thread t takes a POST in this step
PostArrives(t) ==
    /\ request[t].pc = "idle"
    /\ request'[t].method = "POST"

\* the POST of thread t calls handle_input in this step
PostHandled(t) ==
    /\ request[t].method = "POST"
    /\ request[t].pc = "loaded"
    /\ request'[t].pc = "handled"

\* the Chatbot stored under the session id of the POST of thread t is given
\* its chat message, and no other Chatbot is given anything
MessagePassed(t) ==
    LET chatbot == state_datastore[request[t].session_id]
    IN  /\ chatbots'[chatbot].inputs
             = Append(chatbots[chatbot].inputs, request[t].chat_message)
        /\ \A c \in DOMAIN chatbots : c # chatbot => chatbots'[c] = chatbots[c]
        /\ DOMAIN chatbots' = DOMAIN chatbots

\* the steps of the server
ServerStep ==
    /\ EntriesKept
    /\ state_datastore' # state_datastore => \E t \in Threads : GetStores(t)
    /\ \A t \in Threads :
          /\ GetStores(t) => OneNewEntry(t)
          /\ (/\ PostArrives(t)
              /\ request'[t].session_id \in issued
              /\ request'[t].chat_message # NoMessage)
             => request'[t].pc = "loaded"
          /\ (PostHandled(t) /\ request[t].session_id \in issued)
             => (MessagePassed(t) /\ state_datastore' = state_datastore)

\* C22: each GET stores exactly one new entry under a new session id and
\* leaves the entries there are untouched; each POST that carries a session
\* id a GET has issued hands its message to the Chatbot that GET stored and
\* to no other, and leaves every entry as it is; no entry is ever removed or
\* replaced, so the Chatbot of every issued session id can be loaded.
C22_SessionEntries ==
    /\ [](\A session_id \in issued :
            /\ session_id \in DOMAIN state_datastore
            /\ state_datastore[session_id] \in DOMAIN chatbots)
    /\ [][ServerStep]_vars

\* two session ids have been issued; a POST on one of them has been handled
\* and stored back, and the Chatbot of the other has handled nothing
C22_Witness ==
    /\ Cardinality(issued) = 2
    /\ \E t \in Threads :
          /\ request[t].method = "POST"
          /\ request[t].pc = "saved"
          /\ request[t].session_id \in issued
          /\ chatbots[state_datastore[request[t].session_id]].inputs # <<>>
          /\ \E other \in issued :
                /\ other # request[t].session_id
                /\ chatbots[state_datastore[other]].inputs = <<>>


=============================================================================
